---- MODULE Spec2Model ----
(***************************************************************************)
(* Model of verify_password_toggle.py: the verification procedure           *)
(* verify_password_toggle(page) and the __main__ driver that launches a     *)
(* browser, runs the procedure inside try/except/finally and closes the     *)
(* browser.  The page under test, the server, the filesystem and the        *)
(* browser are the environment: their outcomes are nondeterministic.        *)
(***************************************************************************)
EXTENDS Integers, Sequences, FiniteSets, TLC

VARIABLES pc, env, page, pending, sinceClick, waited, browser, dir, files,
          log, out, caught, raised, escaped, obs, everBad, usedClosed

vars == <<pc, env, page, pending, sinceClick, waited, browser, dir, files,
          log, out, caught, raised, escaped, obs, everBad, usedClosed>>

(* Number of polls an auto-waiting call makes before it gives up. *)
Timeout == 2
(* A correct page applies the update a click triggers within the wait. *)
MaxDelay == Timeout - 1

(***************************************************************************)
(* Environment                                                              *)
(***************************************************************************)
Envs == [kind : {"correct", "arbitrary"}, reachable : BOOLEAN,
         writable : BOOLEAN, flaky : BOOLEAN]

PageStates == [type : {"none", "password", "text"}, show : BOOLEAN, hide : BOOLEAN]
Blank == [type |-> "none", show |-> FALSE, hide |-> FALSE]
Hidden == [type |-> "password", show |-> TRUE, hide |-> FALSE]
Revealed == [type |-> "text", show |-> FALSE, hide |-> TRUE]

(* The invariant the page is supposed to keep (spec section 3). *)
Consistent(pg) ==
    /\ pg.show # pg.hide
    /\ pg.show => pg.type = "password"
    /\ pg.hide => pg.type = "text"

NoExc == [site |-> "none", text |-> "none"]
Exc(site, text) == [site |-> site, text |-> text]

NoObs == [typeBefore |-> "unset", showAtClick |-> FALSE,
          typeAfter |-> "unset", hideAfter |-> FALSE]

(***************************************************************************)
(* Pure helpers                                                             *)
(***************************************************************************)
Paths == {"password_toggle.png", "failure.png"}
FailurePath == "failure.png"

SuccessPathWrong == "failure.png"
SuccessPath == "password_toggle.png"

(* os.makedirs(path, exist_ok): result state of the path and the error. *)
MakedirsNoExistOk(d, writable, exist_ok) ==
    CASE d = "dir" -> [dir |-> "dir", err |-> "FileExistsError"]
      [] d = "file" -> [dir |-> "file", err |-> "FileExistsError"]
      [] OTHER -> IF writable THEN [dir |-> "dir", err |-> "none"]
                  ELSE [dir |-> "absent", err |-> "PermissionError"]
Makedirs(d, writable, exist_ok) ==
    CASE d = "dir" -> [dir |-> "dir",
                       err |-> IF exist_ok THEN "none" ELSE "FileExistsError"]
      [] d = "file" -> [dir |-> "file", err |-> "FileExistsError"]
      [] OTHER -> IF writable THEN [dir |-> "dir", err |-> "none"]
                  ELSE [dir |-> "absent", err |-> "PermissionError"]

(* expect(locator).to_have_attribute("type", v) / to_be_visible(): one poll *)
ToHaveAttribute(pg, v) == pg.type = v
ToBeVisibleUnchecked(pg) == TRUE
ToBeVisible(pg) == pg.hide

(* The auto-wait keeps polling until the timeout has elapsed. *)
CanWaitNever(w) == FALSE
CanWait(w) == w < Timeout

(* except Exception as e: every error the procedure raises is an Exception *)
CatchesAssertionOnly(e) == e.text = "AssertionError"
Catches(e) == TRUE

(* The line printed by the except clause. *)
FailureLineNoText(e) == [kind |-> "failed", msg |-> "none"]
FailureLine(e) == [kind |-> "failed", msg |-> e.text]
SuccessLine == [kind |-> "successful", msg |-> "none"]

(* Statement order of verify_password_toggle. *)
Steps == <<"goto", "fill", "expect_password", "click", "expect_text",
           "expect_hide", "makedirs", "screenshot">>
IndexOf(step) == CHOOSE i \in 1..Len(Steps) : Steps[i] = step
NextStepSwapped(step) ==
    CASE step = "fill" -> "click"
      [] step = "click" -> "expect_password"
      [] step = "expect_password" -> "expect_text"
      [] step = "screenshot" -> "print_success"
      [] OTHER -> Steps[IndexOf(step) + 1]
NextStep(step) ==
    IF step = "screenshot" THEN "print_success" ELSE Steps[IndexOf(step) + 1]

(***************************************************************************)
(* Procedure steps                                                          *)
(***************************************************************************)
Use == usedClosed' = (usedClosed \/ browser # "open")

Pass(step) ==
    /\ pc' = NextStep(step)
    /\ log' = Append(log, step)
    /\ waited' = 0
    /\ UNCHANGED <<caught, raised>>

(* The procedure raises e: the except clause takes it if it matches,       *)
(* otherwise it propagates through the finally clause.                     *)
Throw(step, text) ==
    /\ log' = Append(log, step)
    /\ waited' = 0
    /\ IF Catches(Exc(step, text))
       THEN pc' = "except_print" /\ caught' = Exc(step, text) /\ UNCHANGED raised
       ELSE pc' = "close" /\ raised' = Exc(step, text) /\ UNCHANGED caught

Goto ==
    /\ pc = "goto"
    /\ Use
    /\ \/ /\ env.reachable
          /\ page' \in (IF env.kind = "correct" THEN {Hidden} ELSE PageStates)
          /\ everBad' = ~Consistent(page')
          /\ Pass("goto")
       \/ /\ ~env.reachable
          /\ Throw("goto", "NavigationError")
          /\ UNCHANGED <<page, everBad>>
    /\ UNCHANGED <<env, pending, sinceClick, browser, dir, files, out, escaped, obs>>

Fill ==
    /\ pc = "fill"
    /\ Use
    /\ \/ page.type # "none" /\ Pass("fill")
       \/ page.type = "none" /\ ~CanWait(waited) /\ Throw("fill", "TimeoutError")
    /\ UNCHANGED <<env, page, pending, sinceClick, browser, dir, files, out,
                   escaped, obs, everBad>>

ExpectPassword ==
    /\ pc = "expect_password"
    /\ Use
    /\ \/ /\ ToHaveAttribute(page, "password")
          /\ obs' = [obs EXCEPT !.typeBefore = page.type]
          /\ Pass("expect_password")
       \/ /\ ~ToHaveAttribute(page, "password")
          /\ ~CanWait(waited)
          /\ Throw("expect_password", "AssertionError")
          /\ UNCHANGED obs
    /\ UNCHANGED <<env, page, pending, sinceClick, browser, dir, files, out,
                   escaped, everBad>>

Click ==
    /\ pc = "click"
    /\ Use
    /\ \/ /\ page.show
          /\ obs' = [obs EXCEPT !.showAtClick = page.show]
          /\ pending' = (env.kind = "correct")
          /\ sinceClick' = 0
          /\ Pass("click")
       \/ /\ ~page.show
          /\ ~CanWait(waited)
          /\ Throw("click", "TimeoutError")
          /\ UNCHANGED <<obs, pending, sinceClick>>
    /\ UNCHANGED <<env, page, browser, dir, files, out, escaped, everBad>>

ExpectText ==
    /\ pc = "expect_text"
    /\ Use
    /\ \/ /\ ToHaveAttribute(page, "text")
          /\ obs' = [obs EXCEPT !.typeAfter = page.type]
          /\ Pass("expect_text")
       \/ /\ ~ToHaveAttribute(page, "text")
          /\ ~CanWait(waited)
          /\ Throw("expect_text", "AssertionError")
          /\ UNCHANGED obs
    /\ UNCHANGED <<env, page, pending, sinceClick, browser, dir, files, out,
                   escaped, everBad>>

ExpectHide ==
    /\ pc = "expect_hide"
    /\ Use
    /\ \/ /\ ToBeVisible(page)
          /\ obs' = [obs EXCEPT !.hideAfter = page.hide]
          /\ Pass("expect_hide")
       \/ /\ ~ToBeVisible(page)
          /\ ~CanWait(waited)
          /\ Throw("expect_hide", "AssertionError")
          /\ UNCHANGED obs
    /\ UNCHANGED <<env, page, pending, sinceClick, browser, dir, files, out,
                   escaped, everBad>>

MakedirsStep ==
    /\ pc = "makedirs"
    /\ LET r == Makedirs(dir, env.writable, TRUE) IN
       /\ dir' = r.dir
       /\ IF r.err = "none" THEN Pass("makedirs") ELSE Throw("makedirs", r.err)
    /\ UNCHANGED <<env, page, pending, sinceClick, browser, files, out, escaped,
                   obs, everBad, usedClosed>>

(* page.screenshot(path): needs a live page and a writable directory. *)
ScreenshotOk == browser = "open" /\ dir = "dir" /\ env.writable

Screenshot ==
    /\ pc = "screenshot"
    /\ Use
    /\ \/ /\ ScreenshotOk
          /\ files' = [files EXCEPT ![SuccessPath] = "new"]
          /\ Pass("screenshot")
       \/ /\ ~ScreenshotOk \/ env.flaky
          /\ Throw("screenshot", IF ScreenshotOk THEN "TargetClosedError" ELSE "OSError")
          /\ UNCHANGED files
    /\ UNCHANGED <<env, page, pending, sinceClick, browser, dir, out, escaped,
                   obs, everBad>>

(***************************************************************************)
(* Time and the page under test                                             *)
(***************************************************************************)
Waiting ==
    \/ pc = "fill" /\ page.type = "none"
    \/ pc = "expect_password" /\ ~ToHaveAttribute(page, "password")
    \/ pc = "click" /\ ~page.show
    \/ pc = "expect_text" /\ ~ToHaveAttribute(page, "text")
    \/ pc = "expect_hide" /\ ~ToBeVisible(page)

(* One polling interval passes while an auto-waiting call is not satisfied. *)
Tick ==
    /\ Waiting
    /\ CanWait(waited)
    /\ pending => sinceClick < MaxDelay
    /\ waited' = waited + 1
    /\ sinceClick' = IF pending THEN sinceClick + 1 ELSE sinceClick
    /\ UNCHANGED <<pc, env, page, pending, browser, dir, files, log, out, caught,
                   raised, escaped, obs, everBad, usedClosed>>

Loaded == pc \in {"fill", "expect_password", "click", "expect_text", "expect_hide"}

(* A correct toggle reveals the value and swaps its label after the click. *)
PageUpdate ==
    /\ Loaded
    /\ pending
    /\ page' = Revealed
    /\ pending' = FALSE
    /\ everBad' = (everBad \/ ~Consistent(page'))
    /\ UNCHANGED <<pc, env, sinceClick, waited, browser, dir, files, log, out,
                   caught, raised, escaped, obs, usedClosed>>

(* Any other page may change its DOM in any way at any time. *)
PageChange ==
    /\ Loaded
    /\ env.kind = "arbitrary"
    /\ page' \in PageStates \ {page}
    /\ everBad' = (everBad \/ ~Consistent(page'))
    /\ UNCHANGED <<pc, env, pending, sinceClick, waited, browser, dir, files, log,
                   out, caught, raised, escaped, obs, usedClosed>>

verify_password_toggle ==
    \/ Goto \/ Fill \/ ExpectPassword \/ Click \/ ExpectText \/ ExpectHide
    \/ MakedirsStep \/ Screenshot

(***************************************************************************)
(* Driver                                                                   *)
(***************************************************************************)
Launch ==
    /\ pc = "launch"
    /\ log' = Append(log, "launch")
    /\ \/ browser' = "open" /\ pc' = "new_page" /\ UNCHANGED escaped
       \/ /\ env.flaky
          /\ pc' = "done"
          /\ escaped' = Exc("launch", "Error")
          /\ UNCHANGED browser
    /\ UNCHANGED <<env, page, pending, sinceClick, waited, dir, files, out, caught,
                   raised, obs, everBad, usedClosed>>

(* browser.new_page() runs before the try statement is entered. *)
NewPage ==
    /\ pc = "new_page"
    /\ log' = Append(log, "new_page")
    /\ \/ pc' = "goto" /\ UNCHANGED escaped
       \/ /\ env.flaky
          /\ pc' = "done"
          /\ escaped' = Exc("new_page", "Error")
    /\ UNCHANGED <<env, page, pending, sinceClick, waited, browser, dir, files, out,
                   caught, raised, obs, everBad, usedClosed>>

PrintSuccess ==
    /\ pc = "print_success"
    /\ out' = Append(out, SuccessLine)
    /\ log' = Append(log, "print_success")
    /\ pc' = "close"
    /\ UNCHANGED <<env, page, pending, sinceClick, waited, browser, dir, files,
                   caught, raised, escaped, obs, everBad, usedClosed>>

ExceptPrintThenClose ==
    /\ pc = "except_print"
    /\ out' = Append(out, FailureLine(caught))
    /\ log' = log \o <<"print_failure", "close">>
    /\ browser' = "closed"
    /\ pc' = "except_makedirs"
    /\ UNCHANGED <<env, page, pending, sinceClick, waited, dir, files,
                   caught, raised, escaped, obs, everBad, usedClosed>>
ExceptPrint ==
    /\ pc = "except_print"
    /\ out' = Append(out, FailureLine(caught))
    /\ log' = Append(log, "print_failure")
    /\ pc' = "except_makedirs"
    /\ UNCHANGED <<env, page, pending, sinceClick, waited, browser, dir, files,
                   caught, raised, escaped, obs, everBad, usedClosed>>

ExceptMakedirs ==
    /\ pc = "except_makedirs"
    /\ log' = Append(log, "except_makedirs")
    /\ LET r == Makedirs(dir, env.writable, TRUE) IN
       /\ dir' = r.dir
       /\ IF r.err = "none"
          THEN pc' = "except_screenshot" /\ UNCHANGED raised
          ELSE pc' = "close" /\ raised' = Exc("except_makedirs", r.err)
    /\ UNCHANGED <<env, page, pending, sinceClick, waited, browser, files, out,
                   caught, escaped, obs, everBad, usedClosed>>

ExceptScreenshot ==
    /\ pc = "except_screenshot"
    /\ Use
    /\ log' = Append(log, "except_screenshot")
    /\ pc' = "close"
    /\ \/ /\ ScreenshotOk
          /\ files' = [files EXCEPT ![FailurePath] = "new"]
          /\ UNCHANGED raised
       \/ /\ ~ScreenshotOk \/ env.flaky
          /\ raised' = Exc("except_screenshot",
                           IF ScreenshotOk THEN "TargetClosedError" ELSE "OSError")
          /\ UNCHANGED files
    /\ UNCHANGED <<env, page, pending, sinceClick, waited, browser, dir, out,
                   caught, escaped, obs, everBad>>

(* finally: browser.close(); a pending exception then leaves the block. *)
Close ==
    /\ pc = "close"
    /\ log' = Append(log, "close")
    /\ browser' = "closed"
    /\ pc' = "done"
    /\ \/ escaped' = raised
       \/ env.flaky /\ escaped' = Exc("close", "Error")
    /\ UNCHANGED <<env, page, pending, sinceClick, waited, dir, files, out, caught,
                   raised, obs, everBad, usedClosed>>

(* The script is run again: files of the earlier run stay on disk. *)
Restart ==
    /\ pc = "done"
    /\ pc' = "launch"
    /\ env' \in Envs
    /\ page' = Blank
    /\ pending' = FALSE
    /\ sinceClick' = 0
    /\ waited' = 0
    /\ browser' = "none"
    /\ files' = [f \in DOMAIN files |-> IF files[f] = "absent" THEN "absent" ELSE "old"]
    /\ log' = <<>>
    /\ out' = <<>>
    /\ caught' = NoExc
    /\ raised' = NoExc
    /\ escaped' = NoExc
    /\ obs' = NoObs
    /\ everBad' = FALSE
    /\ usedClosed' = FALSE
    /\ UNCHANGED dir

Main ==
    \/ Launch \/ NewPage \/ PrintSuccess \/ ExceptPrint \/ ExceptMakedirs
    \/ ExceptScreenshot \/ Close

Init ==
    /\ pc = "launch"
    /\ env \in Envs
    /\ page = Blank
    /\ pending = FALSE
    /\ sinceClick = 0
    /\ waited = 0
    /\ browser = "none"
    /\ dir \in {"absent", "dir", "file"}
    /\ files = [f \in Paths |-> "absent"]
    /\ log = <<>>
    /\ out = <<>>
    /\ caught = NoExc
    /\ raised = NoExc
    /\ escaped = NoExc
    /\ obs = NoObs
    /\ everBad = FALSE
    /\ usedClosed = FALSE

Next == verify_password_toggle \/ Main \/ Tick \/ PageUpdate \/ PageChange \/ Restart

Spec == Init /\ [][Next]_vars

(***************************************************************************)
(* Properties                                                               *)
(***************************************************************************)
Has(x) == \E i \in 1..Len(log) : log[i] = x
Count(x) == Cardinality({i \in 1..Len(log) : log[i] = x})
Printed(l) == \E i \in 1..Len(out) : out[i] = l
StepSet == {Steps[i] : i \in 1..Len(Steps)}
IsStep(x) == x \in StepSet
ProcLog == SelectSeq(log, IsStep)
IsPrefix(s, t) == Len(s) <= Len(t) /\ \A i \in 1..Len(s) : s[i] = t[i]
Assertions == {"expect_password", "expect_text", "expect_hide"}
AllObserved == [typeBefore |-> "password", showAtClick |-> TRUE,
                typeAfter |-> "text", hideAfter |-> TRUE]

(* C1: once the browser has been launched, browser.close() has been        *)
(* executed on every exit path by the time the driver terminates.          *)
C1_CloseOnEveryExit ==
    (pc = "done" /\ browser # "none") => Has("close")

(* C2 (as stated): once the try block is entered no exception escapes the   *)
(* driver, whatever the procedure and the failure handling do.             *)
C2_NoExceptionEscapes ==
    (pc = "done" /\ Has("goto")) => escaped = NoExc

(* C2 (amended): no exception raised by verify_password_toggle escapes the  *)
(* driver block; an exception leaves the block only when the failure        *)
(* handling (makedirs, failure screenshot) or browser.close() raised it.    *)
C2_OnlyHandlerOrCloseEscapes ==
    (pc = "done" /\ Has("goto")) =>
        /\ escaped.site \in {"none", "except_makedirs", "except_screenshot", "close"}
        /\ raised.site \in {"none", "except_makedirs", "except_screenshot"}
        /\ (escaped = NoExc) <=> (raised = NoExc /\ escaped.site # "close")

C2_Witness ==
    /\ pc = "done"
    /\ caught.site = "goto"
    /\ escaped.site = "except_screenshot"

(* C3: the procedure steps executed in a run are a prefix of the fixed      *)
(* sequence, and the step that raised is the last one executed.             *)
C3_StepsArePrefix ==
    /\ IsPrefix(ProcLog, Steps)
    /\ (caught # NoExc \/ raised.site \in StepSet) =>
          /\ ProcLog # <<>>
          /\ ProcLog[Len(ProcLog)] = (IF caught # NoExc THEN caught.site ELSE raised.site)
    /\ Count("goto") <= 1

C3_Witness ==
    /\ pc = "done"
    /\ caught.site = "click"
    /\ ProcLog = <<"goto", "fill", "expect_password", "click">>

(* C4 (as stated): whenever the procedure raised, the failure line with the *)
(* error text is printed and the failure screenshot exists in the created   *)
(* directory.                                                               *)
C4_FailureScreenshotAlways ==
    (pc = "done" /\ caught # NoExc) =>
        /\ out = <<[kind |-> "failed", msg |-> caught.text]>>
        /\ files["failure.png"] = "new"
        /\ dir = "dir"

(* C4 (amended): whenever the procedure raised, the failure line with the   *)
(* error text is printed; the failure screenshot is produced, after the     *)
(* directory was created, unless makedirs or the screenshot itself raised.  *)
C4_FailureScreenshotBestEffort ==
    (pc = "done" /\ caught # NoExc) =>
        /\ out = <<[kind |-> "failed", msg |-> caught.text]>>
        /\ caught.text # "none"
        /\ raised = NoExc => (files["failure.png"] = "new" /\ dir = "dir")
        /\ files["failure.png"] = "new" =>
              (raised = NoExc /\ dir = "dir" /\ Has("except_makedirs"))

C4_Witness ==
    /\ pc = "done"
    /\ caught = Exc("click", "TimeoutError")
    /\ files["failure.png"] = "new"

(* C5: every run prints exactly one status line: the success line exactly   *)
(* when the procedure returned, the failure line exactly when it raised.    *)
C5_ExactlyOneStatusLine ==
    pc = "done" =>
        /\ Len(out) = 1
        /\ Printed(SuccessLine) <=> caught = NoExc

(* C6 (as stated): a run reports success only if the page kept the label /  *)
(* type invariant at every point of the run.                                *)
C6_SuccessImpliesInvariant ==
    Printed(SuccessLine) => ~everBad

(* C6 (amended): a run reports success only if the page showed type         *)
(* "password" at the first assertion, a "Show password" control at the      *)
(* click, type "text" at the second assertion and a visible "Hide password" *)
(* control at the third; nothing else about the page is examined.           *)
C6_SuccessImpliesObserved ==
    Printed(SuccessLine) => obs = AllObserved

C6_Witness ==
    /\ Printed(SuccessLine)
    /\ everBad
    /\ page.show /\ page.hide

(* C7: against a correct toggle, with the server reachable, the filesystem  *)
(* writable and the browser working, a run passes the three assertions and  *)
(* prints success although the page updates only after the click.           *)
C7_CorrectToggleSucceeds ==
    (/\ pc = "done"
     /\ Has("goto")
     /\ env.kind = "correct" /\ env.reachable /\ env.writable /\ ~env.flaky
     /\ dir # "file")
    => /\ out = <<SuccessLine>>
       /\ escaped = NoExc
       /\ obs = AllObserved

C7_Witness ==
    /\ pc = "done"
    /\ env.kind = "correct"
    /\ sinceClick > 0
    /\ out = <<SuccessLine>>

(* C8: a run that printed success wrote the success screenshot during that  *)
(* run, after the three assertions passed; a run in which an assertion      *)
(* failed wrote no success screenshot.                                      *)
C8_SuccessScreenshot ==
    /\ Printed(SuccessLine) =>
          /\ files["password_toggle.png"] = "new"
          /\ \A a \in Assertions : Has(a)
          /\ caught = NoExc
    /\ files["password_toggle.png"] = "new" =>
          /\ obs = AllObserved
          /\ ProcLog = Steps
    /\ caught.site \in Assertions => files["password_toggle.png"] # "new"

C8_Witness ==
    /\ pc = "done"
    /\ Printed(SuccessLine)
    /\ files["password_toggle.png"] = "new"
    /\ files["failure.png"] = "old"

(* C9: creating the output directory when it already exists never raises    *)
(* and leaves the directory as it was; creating it when it is absent and    *)
(* the parent is writable makes it exist.                                   *)
C9_MakedirsIdempotent ==
    [][(pc \in {"makedirs", "except_makedirs"} /\ pc' # pc /\ dir # "file"
          /\ (dir = "dir" \/ env.writable))
       => /\ dir' = "dir"
          /\ files' = files
          /\ pc' = (IF pc = "makedirs" THEN "screenshot" ELSE "except_screenshot")]_vars

C9_Witness ==
    /\ pc = "except_screenshot"
    /\ Has("makedirs")
    /\ Has("except_makedirs")
    /\ dir = "dir"

(* C10: browser.close() runs at most once, nothing touches the page or the  *)
(* browser after it, and the failure screenshot is taken before it.         *)
C10_CloseIsLast ==
    /\ Count("close") <= 1
    /\ \A i \in 1..Len(log) : log[i] = "close" => i = Len(log)
    /\ ~usedClosed
    /\ browser = "closed" <=> Has("close")

C10_Witness ==
    /\ pc = "done"
    /\ Has("except_screenshot")
    /\ files["failure.png"] = "new"
    /\ Has("close")

====
